---- MODULE Spec2Model ----
(***************************************************************************)
(* Model of clippy_dev/src/lib.rs: the lint record (Lint::new and its      *)
(* description normalisation), the two declaration matchers and            *)
(* parse_contents, the repository views usable_lints and by_lint_group,    *)
(* and the tree scan lint_files / gather_from_file / gather_all.           *)
(*                                                                         *)
(* Texts are sequences of lexemes.  Inside a string literal every lexeme   *)
(* is one character; outside, a keyword, an identifier or a punctuation    *)
(* mark is one lexeme.  Two identifier lexemes are never adjacent in the   *)
(* texts generated here, so lexeme boundaries are the boundaries the       *)
(* regular expressions of the source see.                                  *)
(***************************************************************************)
EXTENDS Integers, Sequences, FiniteSets, TLC

VARIABLES
    pc,        \* position of the driver of the specification being run
    raw,       \* SpecNew: the desc argument handed to Lint::new
    lint,      \* SpecNew: the record Lint::new built
    decls,     \* SpecParse: the declarations the text was written from
    content,   \* SpecParse: the text handed to parse_contents
    parsed,    \* SpecParse: what parse_contents returned
    lints,     \* SpecRepo: the input records
    usable,    \* SpecRepo: result of Lint::usable_lints
    grouped,   \* SpecRepo: result of Lint::by_lint_group
    root_ok,   \* Spec: whether ../clippy_lints/src exists and is accessible
    tree,      \* Spec: what the walk of the tree meets below the root, in order
    pos,       \* Spec: index of the next entry the WalkDir iterator yields
    out        \* Spec: the records gather_all has yielded so far

vars == <<pc, raw, lint, decls, content, parsed, lints, usable, grouped,
          root_ok, tree, pos, out>>

\* ------------------------------------------------------------------ bounds
MaxDesc == 5
MaxDecls == 3
MaxLints == 3
MaxEntries == 2

\* -------------------------------------------------------------- characters
BS == "\\"
QT == "\""
NL == "\n"
SP == " "

DescChars == {"a", SP, BS, QT, NL}

\* the regex class \s, restricted to the characters of the model
IsSpace(c) == c \in {SP, NL}

SeqsUpTo(S, n) == UNION {[1..k -> S] : k \in 0..n}

\* Option<T> as a sequence of length 0 (None) or 1 (Some)
None == <<>>
Some(x) == <<x>>

\* ------------------------------------------------------------- to_lowercase
\* str::to_lowercase on the identifiers of the model
ToLowercase(s) ==
    CASE s = "PTR_ARG" -> "ptr_arg"
      [] s = "DOC_MARKDOWN" -> "doc_markdown"
      [] s = "_" -> "_"
      [] OTHER -> s

\* ------------------------------------------------- description normalisation
\* str::replace("\\\"", "\""): every non-overlapping backslash-quote pair,
\* found left to right, becomes a quote
RECURSIVE ReplaceEscapedQuotes(_)
ReplaceEscapedQuotes(s) ==
    IF s = <<>> THEN <<>>
    ELSE IF Len(s) >= 2 /\ s[1] = BS /\ s[2] = QT
         THEN <<QT>> \o ReplaceEscapedQuotes(SubSeq(s, 3, Len(s)))
         ELSE <<s[1]>> \o ReplaceEscapedQuotes(Tail(s))

\* start of the leftmost match of NL_ESCAPE_RE (\\\n\s*) in s, 0 if none
NlEscapeFind(s) ==
    LET starts == {i \in 1..(Len(s) - 1) : s[i] = BS /\ s[i + 1] = NL}
    IN IF starts = {} THEN 0
       ELSE CHOOSE i \in starts : \A j \in starts : i <= j

\* index just past the greedy \s* that starts at index i
RECURSIVE SkipSpace(_, _)
SkipSpace(s, i) ==
    IF i <= Len(s) /\ IsSpace(s[i]) THEN SkipSpace(s, i + 1) ELSE i

\* NL_ESCAPE_RE.replace(s, ""): Regex::replace substitutes the leftmost
\* match only
NlEscapeReplace(s) ==
    LET i == NlEscapeFind(s)
    IN IF i = 0 THEN s
       ELSE SubSeq(s, 1, i - 1) \o SubSeq(s, SkipSpace(s, i + 2), Len(s))

NormalizeDesc(desc) == NlEscapeReplace(ReplaceEscapedQuotes(desc))

\* Lint::new
LintNew(name, group, desc, deprecation, module) ==
    [name |-> ToLowercase(name),
     group |-> group,
     desc |-> NormalizeDesc(desc),
     deprecation |-> deprecation,
     module |-> module]

\* whether the sequence pat occurs in s
Contains(s, pat) ==
    \E i \in 1..(Len(s) - Len(pat) + 1) : SubSeq(s, i, i + Len(pat) - 1) = pat

\* ------------------------------------------------------- declaration regexes
KwActive == "declare_clippy_lint!"
KwDeprecated == "declare_deprecated_lint!"

\* lexemes of the model that [A-Z_][A-Z_0-9]* matches whole
NameLexemes == {"PTR_ARG", "DOC_MARKDOWN", "_"}
\* lexemes of the model that [a-z_]+ matches whole
CatLexemes == {"style", "pedantic", "internal", "pub", "ptr_arg", "a", "_"}

\* The matchers thread an index through the pattern: the index of the next
\* lexeme to match, or 0 once the pattern has failed.
Expect(t, i, S) == IF i # 0 /\ i <= Len(t) /\ t[i] \in S THEN i + 1 ELSE 0
\* \s*
Ws(t, i) == IF i = 0 THEN 0 ELSE SkipSpace(t, i)
\* \s+
Ws1(t, i) == IF i # 0 /\ i <= Len(t) /\ IsSpace(t[i]) THEN SkipSpace(t, i) ELSE 0

\* (?:[^"\\]+|\\(?s).(?-s))* from index i: the index where the body stops.
\* The two alternatives start with different characters and the body can be
\* followed only by a quote, so the stop is unique.
RECURSIVE StrBodyEnd(_, _)
StrBodyEnd(t, i) ==
    IF i > Len(t) THEN i
    ELSE IF t[i] = QT THEN i
    ELSE IF t[i] = BS
         THEN IF i + 1 <= Len(t) THEN StrBodyEnd(t, i + 2) ELSE i
         ELSE StrBodyEnd(t, i + 1)

NoMatch == [end |-> 0, name |-> "", cat |-> "", desc |-> <<>>]

\* DEC_CLIPPY_LINT_RE anchored at index i; end is the index past the match
MatchActive(t, i) ==
    LET a == Expect(t, i, {KwActive})
        b == Expect(t, Ws(t, a), {"{", "("})
        c == Expect(t, Ws(t, b), {"pub"})
        n == Ws1(t, c)
        d == Expect(t, n, NameLexemes)
        e == Expect(t, Ws(t, d), {","})
        g == Ws(t, e)
        h == Expect(t, g, CatLexemes)
        k == Expect(t, Ws(t, h), {","})
        q == Expect(t, Ws(t, k), {QT})
        r == IF q = 0 THEN 0 ELSE StrBodyEnd(t, q)
        u == Expect(t, r, {QT})
        z == Expect(t, Ws(t, u), {"}", ")"})
    IN IF z = 0 THEN NoMatch
       ELSE [end |-> z, name |-> t[n], cat |-> t[g], desc |-> SubSeq(t, q, r - 1)]

\* DEC_DEPRECATED_LINT_RE anchored at index i
MatchDeprecated(t, i) ==
    LET a == Expect(t, i, {KwDeprecated})
        b == Expect(t, Ws(t, a), {"{", "("})
        c == Expect(t, Ws(t, b), {"pub"})
        n == Ws1(t, c)
        d == Expect(t, n, NameLexemes)
        e == Expect(t, Ws(t, d), {","})
        q == Expect(t, Ws(t, e), {QT})
        r == IF q = 0 THEN 0 ELSE StrBodyEnd(t, q)
        u == Expect(t, r, {QT})
        z == Expect(t, Ws(t, u), {"}", ")"})
    IN IF z = 0 THEN NoMatch
       ELSE [end |-> z, name |-> t[n], cat |-> "", desc |-> SubSeq(t, q, r - 1)]

\* Regex::captures_iter: the successive leftmost non-overlapping matches
RECURSIVE CapturesIter(_, _, _)
CapturesIter(re, t, i) ==
    IF i > Len(t) THEN <<>>
    ELSE LET m == IF re = "active" THEN MatchActive(t, i) ELSE MatchDeprecated(t, i)
         IN IF m.end # 0
            THEN <<m>> \o CapturesIter(re, t, m.end)
            ELSE CapturesIter(re, t, i + 1)

\* the map closures of parse_contents
ActiveLints(text, filename) ==
    LET ms == CapturesIter("active", text, 1)
    IN [k \in 1..Len(ms) |->
           LintNew(ms[k].name, ms[k].cat, ms[k].desc, None, filename)]

DeprecatedLints(text, filename) ==
    LET ms == CapturesIter("deprecated", text, 1)
    IN [k \in 1..Len(ms) |->
           LintNew(ms[k].name, "Deprecated", ms[k].desc, Some(ms[k].desc), filename)]

\* a parse_contents that chains the two matchers the other way round
ParseContentsDeprecatedFirst(text, filename) ==
    DeprecatedLints(text, filename) \o ActiveLints(text, filename)

\* a parse_contents that builds deprecated records the way it builds active ones
ParseContentsNoReason(text, filename) ==
    LET ms == CapturesIter("deprecated", text, 1)
    IN ActiveLints(text, filename) \o
       [k \in 1..Len(ms) |->
           LintNew(ms[k].name, "Deprecated", ms[k].desc, None, filename)]

\* parse_contents
ParseContents(text, filename) ==
    ActiveLints(text, filename) \o DeprecatedLints(text, filename)

\* ------------------------------------------------------------ repository views
\* the characters of the group labels of the model
Spell(g) ==
    CASE g = "internal" -> <<"i", "n", "t", "e", "r", "n", "a", "l">>
      [] g = "internal_style" ->
             <<"i", "n", "t", "e", "r", "n", "a", "l", "_", "s", "t", "y", "l", "e">>
      [] g = "intern" -> <<"i", "n", "t", "e", "r", "n">>
      [] g = "Deprecated" -> <<"D", "e", "p", "r", "e", "c", "a", "t", "e", "d">>
      [] g = "Not Deprecated" ->
             <<"N", "o", "t", " ", "D", "e", "p", "r", "e", "c", "a", "t", "e", "d">>
      [] g = "style" -> <<"s", "t", "y", "l", "e">>
      [] g = "pedantic" -> <<"p", "e", "d", "a", "n", "t", "i", "c">>
      [] g = "pub" -> <<"p", "u", "b">>
      [] g = "ptr_arg" -> <<"p", "t", "r", "_", "a", "r", "g">>
      [] g = "a" -> <<"a">>
      [] g = "_" -> <<"_">>

\* a prefix test that asks for the whole label
StartsWithWhole(g, prefix) == g = prefix

\* str::starts_with
StartsWith(g, prefix) ==
    LET a == Spell(g)
        b == Spell(prefix)
    IN Len(a) >= Len(b) /\ SubSeq(a, 1, Len(b)) = b

\* the filter closure of usable_lints
IsUsable(l) == l.deprecation = None /\ ~StartsWith(l.group, "internal")

\* Iterator::filter
RECURSIVE Filter(_)
Filter(ls) ==
    IF ls = <<>> THEN <<>>
    ELSE IF IsUsable(Head(ls)) THEN <<Head(ls)>> \o Filter(Tail(ls))
         ELSE Filter(Tail(ls))

\* Lint::usable_lints
UsableLints(ls) == Filter(ls)

\* a group map that keeps only the last record of each key
GroupMapInsertLast(m, k, v) ==
    IF k \in DOMAIN m THEN [m EXCEPT ![k] = <<v>>] ELSE m @@ (k :> <<v>>)

\* one step of Itertools::into_group_map: push v onto the bucket of k,
\* which is created empty when k is new
GroupMapInsert(m, k, v) ==
    IF k \in DOMAIN m THEN [m EXCEPT ![k] = Append(@, v)] ELSE m @@ (k :> <<v>>)

\* Itertools::into_group_map over ls[i..], starting from the map m
RECURSIVE IntoGroupMap(_, _, _)
IntoGroupMap(ls, i, m) ==
    IF i > Len(ls) THEN m
    ELSE IntoGroupMap(ls, i + 1, GroupMapInsert(m, ls[i].group, ls[i]))

\* Lint::by_lint_group
ByLintGroup(ls) == IntoGroupMap(ls, 1, <<>>)

\* ------------------------------------------------------------------ tree scan
\* A file name is the sequence of its parts between dots: <<"ptr", "rs">> is
\* ptr.rs and <<"", "rs">> is the hidden file .rs

\* Path::extension
Extension(name) ==
    IF Len(name) < 2 THEN None
    ELSE IF Len(name) = 2 /\ name[1] = "" THEN None
    ELSE Some(name[Len(name)])

\* a stem that keeps the extension
FileStemWhole(name) == name

\* Path::file_stem
FileStem(name) ==
    IF Extension(name) = None THEN name ELSE SubSeq(name, 1, Len(name) - 1)

\* what WalkDir::new(root).into_iter() yields: an error for a root that
\* cannot be read, otherwise the root directory itself and then the tree
ErrEntry == [err |-> TRUE, name |-> <<>>, file |-> "", text |-> <<>>]
RootEntry == [err |-> FALSE, name |-> <<"src">>, file |-> "dir", text |-> <<>>]
WalkDir(rootOk, below) == IF rootOk THEN <<RootEntry>> \o below ELSE <<ErrEntry>>

\* the filter closure of lint_files
IsRsFile(e) == Extension(e.name) = Some("rs")

\* ---------------------------------------------------------------- input texts
PlainDesc == <<"a">>
\* a\"a\<newline><space>a
EscDesc == <<"a", BS, QT, "a", BS, NL, SP, "a">>

\* The declarations a text is written from.  kind "active" and "deprecated"
\* are the two well-formed shapes; the other kinds are near misses and prose.
DeclForms ==
    {[kind |-> "active", name |-> n, cat |-> c, desc |-> PlainDesc, compact |-> FALSE] :
        n \in {"PTR_ARG", "DOC_MARKDOWN"}, c \in {"style", "pedantic"}}
    \cup {[kind |-> "active", name |-> "PTR_ARG", cat |-> "internal",
           desc |-> EscDesc, compact |-> TRUE]}
    \cup {[kind |-> "deprecated", name |-> n, cat |-> "", desc |-> d, compact |-> FALSE] :
        n \in {"PTR_ARG", "DOC_MARKDOWN"}, d \in {PlainDesc, EscDesc}}
    \cup {[kind |-> "deprecated", name |-> "DOC_MARKDOWN", cat |-> "",
           desc |-> PlainDesc, compact |-> TRUE]}
    \cup {[kind |-> k, name |-> "PTR_ARG", cat |-> "style", desc |-> PlainDesc,
           compact |-> FALSE] :
        k \in {"lower_name", "no_close", "deprecated_with_cat", "comment"}}

\* the text of one declaration, laid out as in test_parse_contents or on one
\* line without optional white space
Render(d) ==
    LET kw == IF d.kind \in {"deprecated", "deprecated_with_cat"}
              THEN KwDeprecated ELSE KwActive
        nm == IF d.kind = "lower_name" THEN ToLowercase(d.name) ELSE d.name
        ct == IF d.kind = "deprecated"
              THEN <<>>
              ELSE IF d.compact THEN <<d.cat, ",">> ELSE <<d.cat, ",", NL, SP>>
        cl == IF d.kind = "no_close" THEN <<>>
              ELSE IF d.compact THEN <<")">> ELSE <<NL, "}">>
    IN IF d.kind = "comment" THEN <<"/", "/", "/", SP, "a">>
       ELSE IF d.compact
            THEN <<kw, "(", "pub", SP, nm, ",">> \o ct \o <<QT>> \o d.desc \o <<QT>> \o cl
            ELSE <<kw, SP, "{", NL, SP, "pub", SP, nm, ",", NL, SP>> \o ct
                 \o <<QT>> \o d.desc \o <<QT>> \o cl

RECURSIVE Text(_)
Text(ds) == IF ds = <<>> THEN <<>> ELSE Render(Head(ds)) \o <<NL>> \o Text(Tail(ds))

ModuleNames == {<<"module_name">>}

\* ------------------------------------------------------- Lint::new (SpecNew)
InitNew ==
    /\ pc = "new"
    /\ raw \in SeqsUpTo(DescChars, MaxDesc)
    /\ lint = <<>>
    /\ decls = <<>> /\ content = <<>> /\ parsed = <<>>
    /\ lints = <<>> /\ usable = <<>> /\ grouped = <<>>
    /\ root_ok = TRUE /\ tree = <<>> /\ pos = 1 /\ out = <<>>

\* Lint::new on the raw description
New ==
    /\ pc = "new"
    /\ \E dep \in {None, Some(raw)} :
          lint' = LintNew("PTR_ARG", IF dep = None THEN "style" ELSE "Deprecated",
                          raw, dep, <<"module_name">>)
    /\ pc' = "built"
    /\ UNCHANGED <<raw, decls, content, parsed, lints, usable, grouped,
                   root_ok, tree, pos, out>>

\* Lint::new on the fields of a record already built
NewAgain ==
    /\ pc = "built"
    /\ lint' = LintNew(lint.name, lint.group, lint.desc, lint.deprecation, lint.module)
    /\ pc' = "rebuilt"
    /\ UNCHANGED <<raw, decls, content, parsed, lints, usable, grouped,
                   root_ok, tree, pos, out>>

NextNew == New \/ NewAgain

SpecNew == InitNew /\ [][NextNew]_vars

\* ------------------------------------------------ parse_contents (SpecParse)
InitParse ==
    /\ pc = "parse"
    /\ decls \in SeqsUpTo(DeclForms, MaxDecls)
    /\ content = Text(decls)
    /\ parsed = <<>>
    /\ raw = <<>> /\ lint = <<>>
    /\ lints = <<>> /\ usable = <<>> /\ grouped = <<>>
    /\ root_ok = TRUE /\ tree = <<>> /\ pos = 1 /\ out = <<>>

Parse ==
    /\ pc = "parse"
    /\ \E filename \in ModuleNames : parsed' = ParseContents(content, filename)
    /\ pc' = "parsed"
    /\ UNCHANGED <<raw, lint, decls, content, lints, usable, grouped,
                   root_ok, tree, pos, out>>

NextParse == Parse

SpecParse == InitParse /\ [][NextParse]_vars

\* ------------------------------------------- repository views (SpecRepo)
RepoGroups == {"Deprecated", "Not Deprecated", "internal", "internal_style", "intern"}

RepoLints ==
    {LintNew("should_assert_eq", g, <<"a">>, None, <<"module_name">>) : g \in RepoGroups}
    \cup {LintNew("should_assert_eq2", g, <<"a">>, None, <<"module_name">>) : g \in RepoGroups}
    \cup {LintNew("should_assert_eq", g, <<"a">>, Some(<<"a">>), <<"module_name">>) :
            g \in RepoGroups}

InitRepo ==
    /\ pc = "repo"
    /\ lints \in SeqsUpTo(RepoLints, MaxLints)
    /\ usable = <<>> /\ grouped = <<>>
    /\ raw = <<>> /\ lint = <<>>
    /\ decls = <<>> /\ content = <<>> /\ parsed = <<>>
    /\ root_ok = TRUE /\ tree = <<>> /\ pos = 1 /\ out = <<>>

Usable ==
    /\ pc = "repo"
    /\ usable' = UsableLints(lints)
    /\ pc' = "usable_done"
    /\ UNCHANGED <<raw, lint, decls, content, parsed, lints, grouped,
                   root_ok, tree, pos, out>>

Group ==
    /\ pc = "repo"
    /\ grouped' = ByLintGroup(lints)
    /\ pc' = "grouped_done"
    /\ UNCHANGED <<raw, lint, decls, content, parsed, lints, usable,
                   root_ok, tree, pos, out>>

NextRepo == Usable \/ Group

SpecRepo == InitRepo /\ [][NextRepo]_vars

\* ------------------------------------------------------- gather_all (Spec)
FileNames == {<<"ptr", "rs">>, <<"methods", "rs">>, <<"README", "md">>, <<"", "rs">>}

FileTexts ==
    {Text(<<>>),
     Text(<<[kind |-> "active", name |-> "PTR_ARG", cat |-> "style",
             desc |-> PlainDesc, compact |-> FALSE]>>),
     Text(<<[kind |-> "deprecated", name |-> "DOC_MARKDOWN", cat |-> "",
             desc |-> EscDesc, compact |-> FALSE],
            [kind |-> "active", name |-> "DOC_MARKDOWN", cat |-> "pedantic",
             desc |-> PlainDesc, compact |-> FALSE]>>)}

\* What the walk can meet below the root: an entry it fails to read (Err), a
\* subdirectory, a file that opens and reads, a file that cannot be opened,
\* a file whose bytes are not UTF-8.
TreeEntries ==
    {ErrEntry, [err |-> FALSE, name |-> <<"methods">>, file |-> "dir", text |-> <<>>]}
    \cup {[err |-> FALSE, name |-> n, file |-> "ok", text |-> t] :
            n \in FileNames, t \in FileTexts}
    \cup {[err |-> FALSE, name |-> n, file |-> f, text |-> <<>>] :
            n \in FileNames, f \in {"noopen", "notutf8"}}

Init ==
    /\ pc = "scan"
    /\ root_ok \in BOOLEAN
    /\ tree \in SeqsUpTo(TreeEntries, MaxEntries)
    /\ (~root_ok => tree = <<>>)
    /\ pos = 1
    /\ out = <<>>
    /\ raw = <<>> /\ lint = <<>>
    /\ decls = <<>> /\ content = <<>> /\ parsed = <<>>
    /\ lints = <<>> /\ usable = <<>> /\ grouped = <<>>

Entries == WalkDir(root_ok, tree)

\* filter_map(|f| f.ok()) drops an entry the walk failed on
WalkError ==
    /\ pc = "scan" /\ pos <= Len(Entries)
    /\ Entries[pos].err
    /\ pos' = pos + 1
    /\ UNCHANGED <<pc, raw, lint, decls, content, parsed, lints, usable, grouped,
                   root_ok, tree, out>>

\* the extension filter drops an entry that is not a .rs path
NotRsFile ==
    /\ pc = "scan" /\ pos <= Len(Entries)
    /\ ~Entries[pos].err /\ ~IsRsFile(Entries[pos])
    /\ pos' = pos + 1
    /\ UNCHANGED <<pc, raw, lint, decls, content, parsed, lints, usable, grouped,
                   root_ok, tree, out>>

\* gather_from_file on a file that opens and reads: flat_map appends its records
GatherFromFile ==
    /\ pc = "scan" /\ pos <= Len(Entries)
    /\ ~Entries[pos].err /\ IsRsFile(Entries[pos])
    /\ Entries[pos].file = "ok"
    /\ out' = out \o ParseContents(Entries[pos].text, FileStem(Entries[pos].name))
    /\ pos' = pos + 1
    /\ UNCHANGED <<pc, raw, lint, decls, content, parsed, lints, usable, grouped,
                   root_ok, tree>>

\* gather_from_file: fs::File::open(..).unwrap() on a file that does not open
OpenPanic ==
    /\ pc = "scan" /\ pos <= Len(Entries)
    /\ ~Entries[pos].err /\ IsRsFile(Entries[pos])
    /\ Entries[pos].file = "noopen"
    /\ pc' = "scan_panicked"
    /\ UNCHANGED <<raw, lint, decls, content, parsed, lints, usable, grouped,
                   root_ok, tree, pos, out>>

\* gather_from_file: file.read_to_string(..).unwrap() on bytes that are not UTF-8
ReadPanic ==
    /\ pc = "scan" /\ pos <= Len(Entries)
    /\ ~Entries[pos].err /\ IsRsFile(Entries[pos])
    /\ Entries[pos].file = "notutf8"
    /\ pc' = "scan_panicked"
    /\ UNCHANGED <<raw, lint, decls, content, parsed, lints, usable, grouped,
                   root_ok, tree, pos, out>>

\* the iterator is exhausted: gather_all's sequence ends
ScanDone ==
    /\ pc = "scan" /\ pos > Len(Entries)
    /\ pc' = "scan_done"
    /\ UNCHANGED <<raw, lint, decls, content, parsed, lints, usable, grouped,
                   root_ok, tree, pos, out>>

Next == WalkError \/ NotRsFile \/ GatherFromFile \/ OpenPanic \/ ReadPanic \/ ScanDone

Spec == Init /\ [][Next]_vars

\* ===================================================================== claims

\* ---- Lint::new (SpecNew)

\* C3: the description Lint::new stores contains no backslash-quote sequence
\* and no backslash-newline sequence, whatever raw text it was given.
C3_DescHasNoEscapeArtifact ==
    pc = "built" =>
        /\ ~Contains(lint.desc, <<BS, QT>>)
        /\ ~Contains(lint.desc, <<BS, NL>>)

\* C8: normalising an already normalised description changes nothing:
\* the description of the record built from a record's description is that
\* description.
C8_NormalizeIdempotent ==
    pc = "rebuilt" => lint.desc = NormalizeDesc(raw)

\* ---- parse_contents (SpecParse)

IsActive(d) == d.kind = "active"
IsDeprecated(d) == d.kind = "deprecated"

\* the well-formed declarations of the text in the order the contract gives:
\* the active ones as they appear, then the deprecated ones as they appear
Ordered(ds) == SelectSeq(ds, IsActive) \o SelectSeq(ds, IsDeprecated)

\* C4: every record made from a deprecated declaration has group
\* "Deprecated" and a deprecation reason equal to its own description.
C4_ReasonIsDescription ==
    pc = "parsed" =>
        \A i \in 1..Len(parsed) :
            i > Len(SelectSeq(decls, IsActive)) =>
                /\ parsed[i].group = "Deprecated"
                /\ parsed[i].deprecation = Some(parsed[i].desc)

\* C5: parse_contents yields one record per well-formed declaration, the
\* active ones first in text order and then the deprecated ones in text
\* order; nothing else yields a record.
C5_ActiveThenDeprecated ==
    pc = "parsed" =>
        /\ Len(parsed) = Len(Ordered(decls))
        /\ \A i \in 1..Len(parsed) :
              LET d == Ordered(decls)[i]
              IN /\ parsed[i].name = ToLowercase(d.name)
                 /\ parsed[i].desc = NormalizeDesc(d.desc)
                 /\ parsed[i].group = (IF IsActive(d) THEN d.cat ELSE "Deprecated")
                 /\ parsed[i].module \in ModuleNames

\* a text with an active, a deprecated and another active declaration, in
\* that order and with different names around the deprecated one, was parsed
C5_InterleavedParsed ==
    /\ pc = "parsed"
    /\ Len(decls) = 3
    /\ IsActive(decls[1]) /\ IsDeprecated(decls[2]) /\ IsActive(decls[3])
    /\ decls[1].name # decls[3].name
    /\ Len(parsed) = 3

\* C9: a record has a deprecation reason exactly when it was made from a
\* deprecated declaration; a record made from an active declaration has none
\* and carries the captured category as its group.
C9_ReasonIffDeprecated ==
    pc = "parsed" =>
        /\ Len(parsed) = Len(Ordered(decls))
        /\ \A i \in 1..Len(parsed) :
              LET d == Ordered(decls)[i]
              IN /\ (parsed[i].deprecation # None) <=> IsDeprecated(d)
                 /\ IsActive(d) =>
                       parsed[i].deprecation = None /\ parsed[i].group = d.cat

\* a text with both kinds of declaration was parsed
C9_BothKindsParsed ==
    /\ pc = "parsed"
    /\ \E i, j \in 1..Len(parsed) :
          parsed[i].deprecation = None /\ parsed[j].deprecation # None

\* ---- repository views (SpecRepo)

\* the labels of the model that begin with "internal"
InternalGroups == {"internal", "internal_style"}

Kept(l) == l.deprecation = None /\ l.group \notin InternalGroups

\* C6: usable_lints returns, in input order, exactly the records without a
\* deprecation reason whose group does not begin with "internal".
C6_UsableIsFilter ==
    pc = "usable_done" => usable = SelectSeq(lints, Kept)

\* an input holding a kept record, an internal_style record and a record
\* with a reason went through usable_lints
C6_MixedFiltered ==
    /\ pc = "usable_done"
    /\ \E i, j, k \in 1..Len(lints) :
          /\ lints[i].group = "Not Deprecated" /\ lints[i].deprecation = None
          /\ lints[j].group = "internal_style" /\ lints[j].deprecation = None
          /\ lints[k].deprecation # None
    /\ Len(usable) = 1

RECURSIVE OfGroup(_, _)
OfGroup(ls, g) ==
    IF ls = <<>> THEN <<>>
    ELSE IF Head(ls).group = g THEN <<Head(ls)>> \o OfGroup(Tail(ls), g)
         ELSE OfGroup(Tail(ls), g)

RECURSIVE SumBuckets(_, _)
SumBuckets(m, ks) ==
    IF ks = {} THEN 0
    ELSE LET k == CHOOSE x \in ks : TRUE
         IN Len(m[k]) + SumBuckets(m, ks \ {k})

\* C7: by_lint_group returns a mapping whose keys are exactly the groups of
\* the input and whose value for a group is the input's records of that
\* group in input order; no bucket is empty and the buckets' sizes sum to
\* the input's length.
C7_GroupMapping ==
    pc = "grouped_done" =>
        /\ DOMAIN grouped = {lints[i].group : i \in 1..Len(lints)}
        /\ \A g \in DOMAIN grouped :
              grouped[g] = OfGroup(lints, g) /\ grouped[g] # <<>>
        /\ SumBuckets(grouped, DOMAIN grouped) = Len(lints)

\* an input with groups g1, g2, g1 was grouped, the two g1 records having
\* the same name
C7_TwoInOneBucket ==
    /\ pc = "grouped_done"
    /\ Len(lints) = 3
    /\ lints[1].group = lints[3].group /\ lints[1].group # lints[2].group
    /\ lints[1].name = lints[3].name
    /\ Len(grouped[lints[1].group]) = 2

\* ---- gather_all (Spec)

\* the records of one readable .rs entry, with the module the contract gives:
\* the file name without its last part
RecordsOf(e) ==
    LET rs == ParseContents(e.text, <<>>)
    IN [i \in 1..Len(rs) |->
           [rs[i] EXCEPT !.module = SubSeq(e.name, 1, Len(e.name) - 1)]]

Readable(e) == ~e.err /\ IsRsFile(e) /\ e.file = "ok"
Unreadable(e) == ~e.err /\ IsRsFile(e) /\ e.file \in {"noopen", "notutf8"}

\* the concatenation of the records of the readable .rs entries among es[1..n]
RECURSIVE Concatenated(_, _)
Concatenated(es, n) ==
    IF n = 0 THEN <<>>
    ELSE Concatenated(es, n - 1) \o (IF Readable(es[n]) THEN RecordsOf(es[n]) ELSE <<>>)

ScanEnded == pc \in {"scan_done", "scan_panicked"}

\* C1: a .rs file that cannot be opened or read is skipped: the scan ends
\* without a panic and has yielded the records of the readable files.
C1_UnreadableFileSkipped ==
    (ScanEnded /\ \E i \in 1..Len(Entries) : Unreadable(Entries[i])) =>
        /\ pc = "scan_done"
        /\ out = Concatenated(Entries, Len(Entries))

\* C2: with the root missing or inaccessible the scan never completes
\* normally.
C2_RootErrorSurfaces ==
    ~root_ok => pc # "scan_done"

\* C10: what gather_all has yielded is the concatenation, in walk order, of
\* the records of the .rs files walked so far, each record's module being
\* its file's name without the extension.
C10_ConcatenationInWalkOrder ==
    pc \in {"scan", "scan_done", "scan_panicked"} =>
        out = Concatenated(Entries, pos - 1)

\* a scan of two .rs files that both yield records has completed
C10_TwoFilesScanned ==
    /\ pc = "scan_done"
    /\ \E i, j \in 1..Len(out) : i < j /\ out[i].module # out[j].module

====
